---- MODULE Spec2Model ----
(***************************************************************************)
(* State-machine model of the streaming CSV tokenizer of src/src/lib.rs:   *)
(* the pure transition function, the field and row accumulators and the    *)
(* chunk processor CsvChunkParser::process_chunk, one loop iteration per   *)
(* step.  Characters are Unicode scalar values, field buffers are UTF-8    *)
(* byte sequences, finalized fields are sequences of scalar values.        *)
(***************************************************************************)
EXTENDS Integers, Sequences, FiniteSets, TLC

\* ---------------------------------------------------------------- bounds
MaxChunkLen == 3
MaxInputLen == 4
MaxChunks == 3
MaxRecords == 1
MaxPartialLen == 4
MaxTailLen == 5

\* ------------------------------------------------------------ characters
LF == 10
CR == 13
DQUOTE == 34
COMMA == 44
SEMICOLON == 59
BACKSLASH == 92
LETTER_a == 97
LAQUO == 171
E_ACUTE == 233
EURO == 8364
G_CLEF == 119070

\* ---------------------------------------------------------- configuration
DefaultConfig == [delimiter |-> COMMA, quote |-> DQUOTE, escape |-> DQUOTE]

CustomEscapeConfig == [delimiter |-> COMMA, quote |-> DQUOTE, escape |-> BACKSLASH]

Configs == {DefaultConfig, CustomEscapeConfig}

\* the characters chunks are drawn from, for a configuration
Alphabet(cfg) == {cfg.delimiter, cfg.quote, cfg.escape, LF, CR, LETTER_a}

\* ------------------------------------------------------------------ types
CsvState == {"StartOfField", "InUnquotedField", "InQuotedField", "QuoteSeen",
             "CustomEscapeSeen", "EndOfRecord", "Finished"}

AppendChar(ch) == [tag |-> "AppendChar", ch |-> ch]

AppendEscapedQuote == [tag |-> "AppendEscapedQuote"]

CommitField == [tag |-> "CommitField"]

CommitRow == [tag |-> "CommitRow"]

NoOp == [tag |-> "NoOp"]

UnclosedQuote == <<"UnclosedQuote">>

DataAfterClosingQuote(ch) == <<"DataAfterClosingQuote", ch>>

Utf8Error == <<"Utf8Error">>

\* Option<char>: None is the empty sequence, Some(ch) the singleton
None == <<>>

Some(ch) == <<ch>>

Ok(new_state, action) == [ok |-> TRUE, new_state |-> new_state, action |-> action]

Err(e) == [ok |-> FALSE, err |-> e]

\* ------------------------------------------------------ transition function
handle_start_of_field(c, config) ==
    IF c # None /\ c[1] = config.quote THEN Ok("InQuotedField", NoOp)
    ELSE IF c # None /\ c[1] = config.delimiter THEN Ok("StartOfField", CommitField)
    ELSE IF c = Some(LF) \/ c = Some(CR) THEN Ok("EndOfRecord", CommitRow)
    ELSE IF c # None THEN Ok("InUnquotedField", AppendChar(c[1]))
    ELSE Ok("Finished", NoOp)

\* a variant that keeps the unquoted field open at the end of input
handle_in_unquoted_field_stays(c, config) ==
    IF c # None /\ c[1] = config.delimiter THEN Ok("StartOfField", CommitField)
    ELSE IF c = Some(LF) \/ c = Some(CR) THEN Ok("EndOfRecord", CommitRow)
    ELSE IF c # None THEN Ok("InUnquotedField", AppendChar(c[1]))
    ELSE Ok("InUnquotedField", NoOp)

handle_in_unquoted_field(c, config) ==
    IF c # None /\ c[1] = config.delimiter THEN Ok("StartOfField", CommitField)
    ELSE IF c = Some(LF) \/ c = Some(CR) THEN Ok("EndOfRecord", CommitRow)
    ELSE IF c # None THEN Ok("InUnquotedField", AppendChar(c[1]))
    ELSE Ok("Finished", CommitField)

\* a variant in which a delimiter inside a quoted field ends the field
handle_in_quoted_field_splitting(c, config) ==
    IF c # None /\ c[1] = config.quote THEN Ok("QuoteSeen", NoOp)
    ELSE IF c # None /\ c[1] = config.escape /\ config.quote # config.escape
        THEN Ok("CustomEscapeSeen", NoOp)
    ELSE IF c # None /\ c[1] = config.delimiter THEN Ok("StartOfField", CommitField)
    ELSE IF c # None THEN Ok("InQuotedField", AppendChar(c[1]))
    ELSE Err(UnclosedQuote)

\* a variant that tests for the escape character first, in both modes
handle_in_quoted_field_escape_first(c, config) ==
    IF c # None /\ c[1] = config.escape THEN Ok("CustomEscapeSeen", NoOp)
    ELSE IF c # None /\ c[1] = config.quote THEN Ok("QuoteSeen", NoOp)
    ELSE IF c # None THEN Ok("InQuotedField", AppendChar(c[1]))
    ELSE Err(UnclosedQuote)

handle_in_quoted_field(c, config) ==
    IF c # None /\ c[1] = config.quote /\ config.quote = config.escape
        THEN Ok("QuoteSeen", NoOp)
    ELSE IF c # None /\ c[1] = config.quote /\ config.quote # config.escape
        THEN Ok("QuoteSeen", NoOp)
    ELSE IF c # None /\ c[1] = config.escape /\ config.quote # config.escape
        THEN Ok("CustomEscapeSeen", NoOp)
    ELSE IF c # None THEN Ok("InQuotedField", AppendChar(c[1]))
    ELSE Err(UnclosedQuote)

\* a lenient variant: data after a closing quote is appended
handle_quote_seen_lenient(c, config) ==
    IF c # None /\ c[1] = config.escape THEN Ok("InQuotedField", AppendEscapedQuote)
    ELSE IF c # None /\ c[1] = config.delimiter THEN Ok("StartOfField", CommitField)
    ELSE IF c = Some(LF) \/ c = Some(CR) THEN Ok("EndOfRecord", CommitRow)
    ELSE IF c = None THEN Ok("Finished", CommitRow)
    ELSE Ok("InUnquotedField", AppendChar(c[1]))

handle_quote_seen(c, config) ==
    IF c # None /\ c[1] = config.escape THEN Ok("InQuotedField", AppendEscapedQuote)
    ELSE IF c # None /\ c[1] = config.delimiter THEN Ok("StartOfField", CommitField)
    ELSE IF c = Some(LF) \/ c = Some(CR) THEN Ok("EndOfRecord", CommitRow)
    ELSE IF c = None THEN Ok("Finished", CommitRow)
    ELSE Err(DataAfterClosingQuote(c[1]))

\* a variant that reads the escaped character as any other character of a
\* quoted field
handle_custom_escape_seen_reinterpreted(c, config) == handle_in_quoted_field(c, config)

handle_custom_escape_seen(c, config) ==
    IF c # None THEN Ok("InQuotedField", AppendChar(c[1]))
    ELSE Err(UnclosedQuote)

handle_end_of_record(c, config) ==
    IF c = Some(LF) \/ c = Some(CR) THEN Ok("EndOfRecord", NoOp)
    ELSE IF c = None THEN Ok("Finished", NoOp)
    ELSE Ok("StartOfField", NoOp)

\* a variant that restarts scanning after the end of input
handle_finished_restart(c, config) == handle_start_of_field(c, config)

handle_finished(c, config) == Ok("Finished", NoOp)

\* a variant that scans the character after a record end as the start of a
\* field
transition_without_end_of_record(current_state, c, config) ==
    CASE current_state = "StartOfField" -> handle_start_of_field(c, config)
      [] current_state = "InUnquotedField" -> handle_in_unquoted_field(c, config)
      [] current_state = "InQuotedField" -> handle_in_quoted_field(c, config)
      [] current_state = "QuoteSeen" -> handle_quote_seen(c, config)
      [] current_state = "CustomEscapeSeen" -> handle_custom_escape_seen(c, config)
      [] current_state = "EndOfRecord" -> handle_start_of_field(c, config)
      [] current_state = "Finished" -> handle_finished(c, config)

transition(current_state, c, config) ==
    CASE current_state = "StartOfField" -> handle_start_of_field(c, config)
      [] current_state = "InUnquotedField" -> handle_in_unquoted_field(c, config)
      [] current_state = "InQuotedField" -> handle_in_quoted_field(c, config)
      [] current_state = "QuoteSeen" -> handle_quote_seen(c, config)
      [] current_state = "CustomEscapeSeen" -> handle_custom_escape_seen(c, config)
      [] current_state = "EndOfRecord" -> handle_end_of_record(c, config)
      [] current_state = "Finished" -> handle_finished(c, config)

\* ------------------------------------------------------------------ UTF-8
\* char::len_utf8
len_utf8(ch) == IF ch < 128 THEN 1 ELSE IF ch < 2048 THEN 2 ELSE IF ch < 65536 THEN 3 ELSE 4

\* char::encode_utf8
encode_utf8(ch) ==
    IF ch < 128 THEN <<ch>>
    ELSE IF ch < 2048 THEN <<192 + (ch \div 64), 128 + (ch % 64)>>
    ELSE IF ch < 65536
        THEN <<224 + (ch \div 4096), 128 + ((ch \div 64) % 64), 128 + (ch % 64)>>
    ELSE <<240 + (ch \div 262144), 128 + ((ch \div 4096) % 64),
           128 + ((ch \div 64) % 64), 128 + (ch % 64)>>

IsCont(b) == b >= 128 /\ b < 192

\* the length of the sequence a leading byte announces, 0 for an invalid one
utf8_width(b) ==
    IF b < 128 THEN 1
    ELSE IF b >= 194 /\ b < 224 THEN 2
    ELSE IF b >= 224 /\ b < 240 THEN 3
    ELSE IF b >= 240 /\ b < 245 THEN 4
    ELSE 0

\* the scalar value of the first n bytes
utf8_scalar(bytes, n) ==
    CASE n = 1 -> bytes[1]
      [] n = 2 -> (bytes[1] - 192) * 64 + (bytes[2] - 128)
      [] n = 3 -> (bytes[1] - 224) * 4096 + (bytes[2] - 128) * 64 + (bytes[3] - 128)
      [] n = 4 -> (bytes[1] - 240) * 262144 + (bytes[2] - 128) * 4096
                  + (bytes[3] - 128) * 64 + (bytes[4] - 128)

\* String::from_utf8: the decoded scalar values, or Utf8Error
RECURSIVE from_utf8(_)
from_utf8(bytes) ==
    LET Checked(n, ch, rest) ==
            IF len_utf8(ch) # n \/ (ch >= 55296 /\ ch < 57344) \/ ch > 1114111
            THEN Err(Utf8Error)
            ELSE IF rest.ok THEN [ok |-> TRUE, str |-> <<ch>> \o rest.str]
            ELSE rest
        Decoded(n) ==
            IF n = 0 \/ Len(bytes) < n \/ \E k \in 2..n : ~IsCont(bytes[k])
            THEN Err(Utf8Error)
            ELSE Checked(n, utf8_scalar(bytes, n),
                         from_utf8(SubSeq(bytes, n + 1, Len(bytes))))
    IN IF bytes = <<>> THEN [ok |-> TRUE, str |-> <<>>]
       ELSE Decoded(utf8_width(bytes[1]))

\* str::len: the byte length of a string of scalar values
RECURSIVE str_len(_)
str_len(s) == IF s = <<>> THEN 0 ELSE len_utf8(s[1]) + str_len(Tail(s))

\* the byte offset char_indices reports for the k-th character (1-based)
char_index(s, k) == str_len(SubSeq(s, 1, k - 1))

\* str::get(a..b): the substring when both offsets are character boundaries
str_get(s, a, b) ==
    IF \E i \in 1..(Len(s) + 1), j \in 1..(Len(s) + 1) :
          i <= j /\ char_index(s, i) = a /\ char_index(s, j) = b
    THEN Some(SubSeq(s, CHOOSE i \in 1..(Len(s) + 1) : char_index(s, i) = a,
                        (CHOOSE j \in 1..(Len(s) + 1) : char_index(s, j) = b) - 1))
    ELSE None

\* ------------------------------------------------------------ FieldBuilder
FieldBuilder_new(config) ==
    [buffer |-> <<>>, quote_encoded |-> encode_utf8(config.quote)]

new_with_quote_encoded(quote_encoded) ==
    [buffer |-> <<>>, quote_encoded |-> quote_encoded]

\* a variant that pushes the character as a single byte
append_char_as_byte(fb, ch) == [fb EXCEPT !.buffer = Append(@, ch % 256)]

append_char(fb, ch) == [fb EXCEPT !.buffer = @ \o encode_utf8(ch)]

\* a variant that appends the quote twice for a doubled quote
append_escaped_quote_twice(fb) ==
    [fb EXCEPT !.buffer = @ \o fb.quote_encoded \o fb.quote_encoded]

append_escaped_quote(fb) == [fb EXCEPT !.buffer = @ \o fb.quote_encoded]

finalize_field(fb) == from_utf8(fb.buffer)

reset(fb) == [fb EXCEPT !.buffer = <<>>]

\* -------------------------------------------------------------- RowBuilder
RowBuilder_new == [fields |-> <<>>]

add_field(rb, fb) ==
    LET Push(field) ==
            IF field.ok
            THEN [ok |-> TRUE, rb |-> [rb EXCEPT !.fields = Append(@, field.str)]]
            ELSE [ok |-> FALSE, err |-> field.err, rb |-> rb]
    IN Push(finalize_field(fb))

finalize_row(rb) == [row |-> rb.fields, rb |-> [rb EXCEPT !.fields = <<>>]]

\* a variant that leaves the fields in place
clear_keeps_fields(rb) == rb

clear(rb) == [rb EXCEPT !.fields = <<>>]

\* ---------------------------------------------------------- CsvChunkParser
\* a parser instance: p.state, p.config, p.field_builder, p.row_builder
CsvChunkParser_new(cfg) ==
    [state |-> "StartOfField", config |-> cfg,
     field_builder |-> FieldBuilder_new(cfg), row_builder |-> RowBuilder_new]

commit_field(p) ==
    LET Swapped(quote_encoded) ==
            [p EXCEPT !.field_builder = new_with_quote_encoded(quote_encoded)]
        Added(p1, added) ==
            IF added.ok THEN [ok |-> TRUE, p |-> [p1 EXCEPT !.row_builder = added.rb]]
            ELSE [ok |-> FALSE, err |-> added.err, p |-> p1]
    IN Added(Swapped(p.field_builder.quote_encoded),
             add_field(p.row_builder, [p.field_builder EXCEPT !.quote_encoded = <<>>]))

commit_row(p) ==
    LET Taken(cf, fin) ==
            [ok |-> TRUE, row |-> fin.row, p |-> [cf.p EXCEPT !.row_builder = fin.rb]]
        Committed(cf) ==
            IF cf.ok THEN Taken(cf, finalize_row(cf.p.row_builder))
            ELSE [ok |-> FALSE, err |-> cf.err, p |-> cf.p]
    IN Committed(commit_field(p))

\* a variant that only filters rows without fields
is_empty_row_no_fields(row) == Len(row) = 0

is_empty_row(row) ==
    IF Len(row) = 0 THEN TRUE
    ELSE IF Len(row) = 1 /\ Len(row[1]) = 0 THEN TRUE
    ELSE FALSE

\* ChunkResult / Err as returned by process_chunk
OkResult(rows, leftover) ==
    [kind |-> "ok", complete_rows |-> rows, leftover_data |-> leftover]

ErrResult(e) == [kind |-> "err", err |-> e]

NoResult == [kind |-> "none"]

\* A call in progress is a record m: the parser fields (state, config,
\* field_builder, row_builder), the locals of process_chunk (chunk, pos = the
\* position of the char_indices cursor, completed_rows, last_consumed_index),
\* pc ("walk" while the call runs, "idle" once it returned), the returned
\* result and trace, the list of transition calls made so far in the call.
ParserOf(m) ==
    [state |-> m.state, config |-> m.config,
     field_builder |-> m.field_builder, row_builder |-> m.row_builder]

WithParser(m, p) ==
    [m EXCEPT !.state = p.state, !.field_builder = p.field_builder,
              !.row_builder = p.row_builder]

\* a variant that returns the rows completed so far instead of the error
Fail_returns_rows(m, e) ==
    [m EXCEPT !.pc = "idle", !.result = OkResult(m.completed_rows, <<>>)]

\* return Err(e) from process_chunk
Fail(m, e) == [m EXCEPT !.pc = "idle", !.result = ErrResult(e)]

\* entry of process_chunk: the locals before the while loop
BeginCall(p, c) ==
    [state |-> p.state, config |-> p.config,
     field_builder |-> p.field_builder, row_builder |-> p.row_builder,
     chunk |-> c, pos |-> 1, completed_rows |-> <<>>, last_consumed_index |-> 0,
     pc |-> "walk", result |-> NoResult, trace |-> <<>>]

\* one record of the trace: a call of transition from state `from`
Event(kind, at, ch, from, action) ==
    [kind |-> kind, pos |-> at, ch |-> ch, from |-> from, action |-> action.tag]

\* the match on the action in the while loop: the parser and completed_rows
\* after the action, or the error of a failed commit
ApplyAction(m, action) ==
    LET FieldDone(cf) ==
            IF cf.ok THEN [ok |-> TRUE, m |-> WithParser(m, cf.p)]
            ELSE [ok |-> FALSE, err |-> cf.err, m |-> WithParser(m, cf.p)]
        RowDone(cr) ==
            IF cr.ok
            THEN [ok |-> TRUE,
                  m |-> [WithParser(m, cr.p) EXCEPT !.completed_rows =
                           IF is_empty_row(cr.row) THEN @ ELSE Append(@, cr.row)]]
            ELSE [ok |-> FALSE, err |-> cr.err, m |-> WithParser(m, cr.p)]
    IN CASE action.tag = "AppendChar" ->
              [ok |-> TRUE,
               m |-> [m EXCEPT !.field_builder = append_char(@, action.ch)]]
         [] action.tag = "AppendEscapedQuote" ->
              [ok |-> TRUE,
               m |-> [m EXCEPT !.field_builder = append_escaped_quote(@)]]
         [] action.tag = "CommitField" -> FieldDone(commit_field(ParserOf(m)))
         [] action.tag = "CommitRow" -> RowDone(commit_row(ParserOf(m)))
         [] action.tag = "NoOp" -> [ok |-> TRUE, m |-> m]

\* a variant without the merge: the next character is never consumed
TerminatorMerge_never(m, i, current_char) ==
    [m EXCEPT !.last_consumed_index = i + len_utf8(current_char),
              !.state = "StartOfField"]

\* a variant of the merge that consumes the peeked character without
\* advancing the last-consumed offset past it
TerminatorMerge_offset_not_advanced(m, i, current_char) ==
    LET NotConsumed ==
            [m EXCEPT !.last_consumed_index = i + len_utf8(current_char),
                      !.state = "StartOfField"]
        Peeked(next_c, t) ==
            IF ~t.ok THEN Fail(m, t.err)
            ELSE IF t.action.tag = "NoOp"
            THEN [NotConsumed EXCEPT !.pos = @ + 1,
                                     !.trace = Append(@, Event("merge", m.pos, next_c,
                                                               m.state, t.action))]
            ELSE NotConsumed
    IN IF m.pos <= Len(m.chunk)
       THEN Peeked(m.chunk[m.pos], transition(m.state, Some(m.chunk[m.pos]), m.config))
       ELSE NotConsumed

\* step 4 of the loop body: the terminator merge after a row commit
TerminatorMerge(m, i, current_char) ==
    LET NotConsumed ==
            [m EXCEPT !.last_consumed_index = i + len_utf8(current_char),
                      !.state = "StartOfField"]
        Peeked(next_i, next_c, t) ==
            IF ~t.ok THEN Fail(m, t.err)
            ELSE IF t.action.tag = "NoOp"
            THEN [m EXCEPT !.pos = @ + 1,
                           !.last_consumed_index = next_i + len_utf8(next_c),
                           !.state = "StartOfField",
                           !.trace = Append(@, Event("merge", m.pos, next_c,
                                                     m.state, t.action))]
            ELSE NotConsumed
    IN IF m.pos <= Len(m.chunk)
       THEN Peeked(char_index(m.chunk, m.pos), m.chunk[m.pos],
                   transition(m.state, Some(m.chunk[m.pos]), m.config))
       ELSE NotConsumed

\* one iteration of `while let Some((i, current_char)) = char_indices.next()`
WalkIter(m) ==
    LET Updated(i, current_char, t, applied) ==
            IF ~applied.ok THEN Fail(applied.m, applied.err)
            ELSE IF t.new_state = "EndOfRecord"
            THEN TerminatorMerge([applied.m EXCEPT !.state = t.new_state],
                                 i, current_char)
            ELSE [applied.m EXCEPT !.state = t.new_state,
                                   !.last_consumed_index = i + len_utf8(current_char)]
        Transitioned(i, current_char, prev_state, t) ==
            IF ~t.ok THEN Fail(m, t.err)
            ELSE Updated(i, current_char, t,
                         ApplyAction([m EXCEPT !.pos = @ + 1,
                                               !.trace = Append(@, Event("walk", m.pos,
                                                   current_char, prev_state, t.action))],
                                     t.action))
    IN Transitioned(char_index(m.chunk, m.pos), m.chunk[m.pos], m.state,
                    transition(m.state, Some(m.chunk[m.pos]), m.config))

\* a variant whose error handler sets the terminal state for every error
FinalTransition_always_finishes(m) ==
    LET Handled(t) ==
            IF t.ok THEN [ok |-> TRUE, t |-> t, m |-> m]
            ELSE [ok |-> FALSE, err |-> t.err, m |-> [m EXCEPT !.state = "Finished"]]
    IN Handled(transition(m.state, None, m.config))

\* the end-of-input transition with its or_else error handler
FinalTransition(m) ==
    LET Handled(t) ==
            IF t.ok THEN [ok |-> TRUE, t |-> t, m |-> m]
            ELSE IF t.err = UnclosedQuote THEN [ok |-> FALSE, err |-> t.err, m |-> m]
            ELSE [ok |-> FALSE, err |-> t.err, m |-> [m EXCEPT !.state = "Finished"]]
    IN Handled(transition(m.state, None, m.config))

\* a variant that clears the accumulators in every final state
Leftover_always_clear(m, final_state) ==
    [m EXCEPT !.row_builder = clear(@), !.field_builder = reset(@),
              !.state = final_state, !.pc = "idle",
              !.result = OkResult(m.completed_rows, <<>>)]

\* a variant that returns the whole chunk as leftover in a partial state
Leftover_whole_chunk(m, final_state) ==
    IF final_state \in {"InQuotedField", "CustomEscapeSeen"}
    THEN [m EXCEPT !.state = final_state, !.pc = "idle",
                   !.result = OkResult(m.completed_rows, m.chunk)]
    ELSE [m EXCEPT !.row_builder = clear(@), !.field_builder = reset(@),
                   !.state = final_state, !.pc = "idle",
                   !.result = OkResult(m.completed_rows, <<>>)]

\* a variant whose boundary branch keeps the fields of the current row
Leftover_keeps_row(m, final_state) ==
    LET Unwrapped(got) == IF got = None THEN <<>> ELSE got[1]
        Sliced(chunk_length) ==
            IF m.last_consumed_index < chunk_length
            THEN Unwrapped(str_get(m.chunk, m.last_consumed_index, chunk_length))
            ELSE <<>>
    IN IF final_state \in {"InQuotedField", "CustomEscapeSeen"}
       THEN [m EXCEPT !.state = final_state, !.pc = "idle",
                      !.result = OkResult(m.completed_rows, Sliced(str_len(m.chunk)))]
       ELSE [m EXCEPT !.field_builder = reset(@),
                      !.state = final_state, !.pc = "idle",
                      !.result = OkResult(m.completed_rows, <<>>)]

\* the leftover computation and the return of Ok(ChunkResult)
Leftover(m, final_state) ==
    LET Unwrapped(got) == IF got = None THEN <<>> ELSE got[1]
        Sliced(chunk_length) ==
            IF m.last_consumed_index < chunk_length
            THEN Unwrapped(str_get(m.chunk, m.last_consumed_index, chunk_length))
            ELSE <<>>
    IN IF final_state \in {"InQuotedField", "CustomEscapeSeen"}
       THEN [m EXCEPT !.state = final_state, !.pc = "idle",
                      !.result = OkResult(m.completed_rows, Sliced(str_len(m.chunk)))]
       ELSE [m EXCEPT !.row_builder = clear(@), !.field_builder = reset(@),
                      !.state = final_state, !.pc = "idle",
                      !.result = OkResult(m.completed_rows, <<>>)]

\* the final commit and what follows it, for a resolved (state, action)
FinalCommit(m, fin) ==
    LET Committed(applied) ==
            IF ~applied.ok THEN Fail(applied.m, applied.err)
            ELSE Leftover(applied.m, fin.t.new_state)
        Traced ==
            [m EXCEPT !.trace = Append(@, Event("final", m.pos, 0, m.state,
                                                fin.t.action))]
    IN IF ~fin.ok THEN Fail(fin.m, fin.err)
       ELSE IF fin.t.action.tag \in {"CommitField", "CommitRow"}
       THEN Committed(ApplyAction(Traced, fin.t.action))
       ELSE Committed([ok |-> TRUE, m |-> Traced])

\* a variant that applies the end-of-input transition at every chunk end
Resolve_every_state_final(m) == FinalCommit(m, FinalTransition(m))

\* a variant that applies the end-of-input transition to the empty chunk only
Resolve_only_at_eof(m) ==
    FinalCommit(m, IF m.chunk = <<>> THEN FinalTransition(m)
                   ELSE [ok |-> TRUE, t |-> Ok(m.state, NoOp), m |-> m])

\* the code after the loop: end-of-chunk resolution, final commit, leftover
Resolve(m) ==
    FinalCommit(m, IF m.chunk = <<>> THEN FinalTransition(m)
                   ELSE IF m.state \in {"InUnquotedField", "QuoteSeen"}
                        THEN FinalTransition(m)
                        ELSE [ok |-> TRUE, t |-> Ok(m.state, NoOp), m |-> m])

\* process_chunk as a whole: the loop run to its end, then the resolution
RECURSIVE RunCall(_)
RunCall(m) ==
    IF m.pc = "idle" THEN m
    ELSE IF m.pos <= Len(m.chunk) THEN RunCall(WalkIter(m))
    ELSE Resolve(m)

process_chunk(p, c) == RunCall(BeginCall(p, c))

\* ------------------------------------------------------------------ state
VARIABLES
    state,                \* CsvChunkParser.state
    config,               \* CsvChunkParser.config
    field_builder,        \* CsvChunkParser.field_builder
    row_builder,          \* CsvChunkParser.row_builder
    chunk,                \* process_chunk: the chunk argument
    pos,                  \* process_chunk: the char_indices cursor (next character)
    completed_rows,       \* process_chunk: completed_rows
    last_consumed_index,  \* process_chunk: last_consumed_index
    pc,                   \* "idle" between calls, "walk" inside process_chunk
    result,               \* what the last call returned
    trace,                \* history: the transition calls of the current call
    entry,                \* history: the parser as it was when the call began
    log,                  \* history: the last two returned calls
    fed,                  \* history: the number of characters passed so far
    stream                \* the streaming caller: chunks passed, all_rows, failure

vars == <<state, config, field_builder, row_builder, chunk, pos, completed_rows,
          last_consumed_index, pc, result, trace, entry, log, fed, stream>>

\* the current call record, and the parser in it
Cur ==
    [state |-> state, config |-> config,
     field_builder |-> field_builder, row_builder |-> row_builder,
     chunk |-> chunk, pos |-> pos, completed_rows |-> completed_rows,
     last_consumed_index |-> last_consumed_index,
     pc |-> pc, result |-> result, trace |-> trace]

Install(n) ==
    /\ state' = n.state
    /\ config' = n.config
    /\ field_builder' = n.field_builder
    /\ row_builder' = n.row_builder
    /\ chunk' = n.chunk
    /\ pos' = n.pos
    /\ completed_rows' = n.completed_rows
    /\ last_consumed_index' = n.last_consumed_index
    /\ pc' = n.pc
    /\ result' = n.result
    /\ trace' = n.trace

\* the last two of the returned calls, the new one included
LastTwo(l, call) == IF l = <<>> THEN <<call>> ELSE <<l[Len(l)], call>>

RowsOf(r) == IF r.kind = "ok" THEN r.complete_rows ELSE <<>>

\* the streaming caller: `all_rows.extend(result.complete_rows)`, or `?`
Collected(st, r) ==
    IF st.on THEN [st EXCEPT !.rows = @ \o RowsOf(r), !.failed = (r.kind = "err")]
    ELSE st

\* a step inside a call; a returned call is recorded with the parser it began from
Step(n) ==
    /\ Install(n)
    /\ log' = IF n.pc = "idle" THEN LastTwo(log, [entry |-> entry, ret |-> n]) ELSE log
    /\ stream' = IF n.pc = "idle" THEN Collected(stream, n.result) ELSE stream
    /\ entry' = entry
    /\ fed' = fed

\* all strings over a set of characters, up to a length
Strings(chars, n) == UNION {[1..k -> chars] : k \in 0..n}

Min(a, b) == IF a <= b THEN a ELSE b

\* the chunks a caller may pass next: at most MaxChunkLen characters each,
\* at most MaxInputLen characters over all calls
Chunks(cfg, sofar) == Strings(Alphabet(cfg), Min(MaxChunkLen, MaxInputLen - sofar))

NoStream == [on |-> FALSE, chunks |-> <<>>, rows |-> <<>>, failed |-> FALSE]

NewStream == [on |-> TRUE, chunks |-> <<>>, rows |-> <<>>, failed |-> FALSE]

\* the parser of `config` just constructed, no call made
Constructed ==
    /\ state = CsvChunkParser_new(config).state
    /\ field_builder = CsvChunkParser_new(config).field_builder
    /\ row_builder = CsvChunkParser_new(config).row_builder
    /\ chunk = <<>>
    /\ pos = 1
    /\ completed_rows = <<>>
    /\ last_consumed_index = 0
    /\ pc = "idle"
    /\ result = NoResult
    /\ trace = <<>>
    /\ entry = CsvChunkParser_new(config)
    /\ log = <<>>
    /\ fed = 0

\* a parser just constructed, no call made
InitParser == config \in Configs /\ Constructed

Init == InitParser /\ stream = NoStream

\* the caller invokes process_chunk(c)
Call(c) ==
    /\ pc = "idle"
    /\ Install(BeginCall(ParserOf(Cur), c))
    /\ entry' = ParserOf(Cur)
    /\ fed' = fed + Len(c)
    /\ stream' = IF stream.on THEN [stream EXCEPT !.chunks = Append(@, c)] ELSE stream
    /\ log' = log

\* one iteration of the while loop of process_chunk
Walk ==
    /\ pc = "walk"
    /\ pos <= Len(chunk)
    /\ Step(WalkIter(Cur))

\* the loop is exhausted: resolution, final commit, leftover, return
EndOfChunk ==
    /\ pc = "walk"
    /\ pos > Len(chunk)
    /\ Step(Resolve(Cur))

\* any caller: any chunk, empty or not, at any time between calls
Next ==
    \/ \E c \in Chunks(config, fed) : Call(c)
    \/ Walk
    \/ EndOfChunk

Spec == Init /\ [][Next]_vars

\* ------------------------------------------------------ the streaming caller
\* A caller that follows the protocol: non-empty chunks in order, then one
\* empty chunk as the end-of-input signal, stopping at the first error.
EofSent == stream.chunks # <<>> /\ stream.chunks[Len(stream.chunks)] = <<>>

StreamInit == InitParser /\ stream = NewStream

\* `let result = parser.process_chunk(chunk)?` for the next chunk
Feed(c) ==
    /\ stream.on /\ ~stream.failed /\ ~EofSent
    /\ c # <<>>
    /\ Len(stream.chunks) < MaxChunks
    /\ Call(c)

\* `parser.process_chunk("")` after the last chunk
Eof ==
    /\ stream.on /\ ~stream.failed /\ ~EofSent
    /\ Call(<<>>)

StreamNext ==
    \/ \E c \in Chunks(config, fed) : Feed(c)
    \/ Eof
    \/ Walk
    \/ EndOfChunk

StreamSpec == StreamInit /\ [][StreamNext]_vars

\* ------------------------------------------------------- multi-byte text
\* a configuration whose quote character takes two bytes
WideQuoteConfig == [delimiter |-> COMMA, quote |-> LAQUO, escape |-> LAQUO]

Utf8Configs == {DefaultConfig, WideQuoteConfig}

\* characters of every UTF-8 width, with the structural characters
Utf8Alphabet(cfg) == {cfg.delimiter, cfg.quote, LF, E_ACUTE, EURO, G_CLEF}

Utf8Chunks(cfg, sofar) ==
    Strings(Utf8Alphabet(cfg), Min(MaxChunkLen, MaxInputLen - sofar))

Utf8Init == config \in Utf8Configs /\ Constructed /\ stream = NoStream

Utf8Next ==
    \/ \E c \in Utf8Chunks(config, fed) : Call(c)
    \/ Walk
    \/ EndOfChunk

Utf8Spec == Utf8Init /\ [][Utf8Next]_vars

\* ------------------------------------------------ the transition function
\* The transition function called on its own: any state, any class of input,
\* both modes, the delimiter ',' or ';'.
TableConfigs ==
    {[delimiter |-> d, quote |-> DQUOTE, escape |-> e] :
        d \in {COMMA, SEMICOLON}, e \in {DQUOTE, BACKSLASH}}

\* one input of each class, and the end of input
TableInputs(cfg) ==
    {None} \cup {Some(ch) : ch \in {cfg.delimiter, cfg.quote, cfg.escape, CR, LF, LETTER_a}}

TableInit ==
    /\ config \in TableConfigs
    /\ state \in CsvState
    /\ field_builder = FieldBuilder_new(config)
    /\ row_builder = RowBuilder_new
    /\ chunk = <<>>
    /\ pos = 1
    /\ completed_rows = <<>>
    /\ last_consumed_index = 0
    /\ pc = "idle"
    /\ result = NoResult
    /\ trace = <<>>
    /\ entry = CsvChunkParser_new(config)
    /\ log = <<>>
    /\ fed = 0
    /\ stream = NoStream

\* transition(state, c, &config) is called and its result recorded: the
\* function takes the state by value and returns a value
TransitionCall(c) ==
    /\ trace' = <<[kind |-> "call", from |-> state, input |-> c,
                   out |-> transition(state, c, config)]>>
    /\ UNCHANGED <<state, config, field_builder, row_builder, chunk, pos,
                   completed_rows, last_consumed_index, pc, result, entry, log,
                   fed, stream>>

TableNext == \E c \in TableInputs(config) : TransitionCall(c)

TableSpec == TableInit /\ [][TableNext]_vars

\* ------------------------------------- a failing chunk, then one more call
\* A new parser is passed one chunk: possibly a whole record, then any text
\* of at most MaxTailLen characters (LF is the terminator used); when that
\* call fails the caller makes one more call.
TailChunks(cfg) ==
    {r \o t : r \in {<<>>, <<LETTER_a, LF>>},
              t \in Strings(Alphabet(cfg) \ {CR}, MaxTailLen)}

\* the chunks of the call after a failure: the end of input, a terminator, a
\* closing quote and a terminator
FollowUps(cfg) == {<<>>, <<LF>>, <<cfg.quote, LF>>}

ErrorNext ==
    \/ fed = 0 /\ \E c \in TailChunks(config) : Call(c)
    \/ Len(log) = 1 /\ result.kind = "err" /\ \E c \in FollowUps(config) : Call(c)
    \/ Walk
    \/ EndOfChunk

ErrorSpec == Init /\ [][ErrorNext]_vars

\* ============================================================== properties
LastCall == log[Len(log)]

Terminators == {CR, LF}

QuotedStates == {"InQuotedField", "CustomEscapeSeen"}

\* the call is at the end of its loop
AtEndOfChunk == pc = "walk" /\ pos > Len(chunk)

\* the call is about to read chunk[pos] in the main walk
AtWalk == pc = "walk" /\ pos <= Len(chunk)

\* this step returns from process_chunk
Returns == pc = "walk" /\ pc' = "idle"

IsDataAfterClosingQuote(r) ==
    r.kind = "err" /\ r.err[1] = "DataAfterClosingQuote"

\* C8: a step of process_chunk returns DataAfterClosingQuote exactly when the
\* main walk reads, in QuoteSeen, a character that is not the escape
\* character, the delimiter, CR or LF, and the error carries that character.
C8_DataAfterClosingQuote ==
    [][pc = "walk" =>
        LET offending == /\ pos <= Len(chunk)
                         /\ state = "QuoteSeen"
                         /\ chunk[pos] \notin {config.escape, config.delimiter, CR, LF}
        IN /\ offending => /\ pc' = "idle"
                           /\ result' = ErrResult(DataAfterClosingQuote(chunk[pos]))
           /\ (pc' = "idle" /\ IsDataAfterClosingQuote(result')) => offending]_vars

C8_Witness ==
    /\ pc = "idle"
    /\ result = ErrResult(DataAfterClosingQuote(LETTER_a))
    /\ state = "QuoteSeen"

\* C9: a call returns UnclosedQuote if and only if its chunk is empty and the
\* state on entry is InQuotedField or CustomEscapeSeen.
C9_UnclosedQuote ==
    log # <<>> =>
        ((LastCall.ret.result.kind = "err" /\ LastCall.ret.result.err = UnclosedQuote)
         <=> (LastCall.ret.chunk = <<>> /\ LastCall.entry.state \in QuotedStates))

C9_Witness ==
    /\ pc = "idle"
    /\ log # <<>>
    /\ result = ErrResult(UnclosedQuote)
    /\ LastCall.ret.chunk = <<>>

\* C10: once the state is Finished it stays Finished, and a call that begins
\* in Finished returns Ok with no rows and empty leftover_data.
C10_FinishedTerminal ==
    [][/\ state = "Finished" => state' = "Finished"
       /\ (Returns /\ entry.state = "Finished") => result' = OkResult(<<>>, <<>>)]_vars

C10_Witness ==
    /\ pc = "idle"
    /\ log # <<>>
    /\ LastCall.entry.state = "Finished"
    /\ \E k \in 1..Len(chunk) : chunk[k] = config.quote
    /\ \E k \in 1..Len(chunk) : chunk[k] = LETTER_a

\* the row a CommitRow action commits from the current accumulators
PendingRow == Append(row_builder.fields, from_utf8(field_builder.buffer).str)

IsBlank(row) == row = <<>> \/ row = << <<>> >>

\* this step applies a CommitRow action (in the main walk or at the chunk end)
CommitsRow ==
    /\ Len(trace') > Len(trace)
    /\ trace'[Len(trace) + 1].kind \in {"walk", "final"}
    /\ trace'[Len(trace) + 1].action = "CommitRow"

\* a chunk made of CR and LF only
OnlyTerminators(c) == \A j \in 1..Len(c) : c[j] \in Terminators

\* a parser between records: nothing pending in the accumulators
BetweenRecords(p) ==
    /\ p.state \in {"StartOfField", "Finished"}
    /\ p.field_builder.buffer = <<>>
    /\ p.row_builder.fields = <<>>

\* C6: no row collected by a call is blank; a committed row is appended to
\* the call's complete_rows exactly when it is not blank (no fields, or one
\* empty field), and a successful call returns the rows so collected; a chunk
\* of CR and LF only, passed to a parser that is between records (as a new
\* parser is), returns no rows and leaves the parser between records, so
\* that input of CR and LF only yields no rows in any chunking.
C6_BlankLineFiltering ==
    [][/\ \A k \in 1..Len(completed_rows') : ~IsBlank(completed_rows'[k])
       /\ CommitsRow =>
            completed_rows' = IF IsBlank(PendingRow) THEN completed_rows
                              ELSE Append(completed_rows, PendingRow)
       /\ (Returns /\ result'.kind = "ok") =>
            result'.complete_rows = completed_rows'
       /\ (Returns /\ OnlyTerminators(chunk) /\ BetweenRecords(entry)) =>
            /\ result' = OkResult(<<>>, <<>>)
            /\ BetweenRecords(ParserOf(Cur'))]_vars

\* a blank row was committed and filtered, then a row was returned
C6_Witness ==
    /\ pc = "idle"
    /\ Len(log) = 2
    /\ log[1].ret.chunk = <<LF>>
    /\ log[1].ret.trace[1].action = "CommitRow"
    /\ log[1].ret.result = OkResult(<<>>, <<>>)
    /\ log[2].ret.result = OkResult(<< <<<<LETTER_a>>>> >>, <<>>)

\* the main walk is about to read a CR that ends a record, with LF after it
AtCrLf ==
    /\ AtWalk
    /\ pos < Len(chunk)
    /\ chunk[pos] = CR
    /\ chunk[pos + 1] = LF
    /\ state \in {"StartOfField", "InUnquotedField", "QuoteSeen"}

\* the loop ended right after such a CR LF pair
EndsOnCrLf ==
    /\ AtEndOfChunk
    /\ Len(trace) >= 2
    /\ trace[Len(trace)].kind = "merge"
    /\ trace[Len(trace)].pos = Len(chunk)
    /\ trace[Len(trace)].ch = LF
    /\ trace[Len(trace) - 1].kind = "walk"
    /\ trace[Len(trace) - 1].ch = CR

\* C7: a CR read by the main walk as a record terminator and followed by LF in
\* the same chunk is one boundary: one CommitRow for the CR, the LF consumed
\* by the merge with no transition of its own in the main walk, at most the
\* one row of the CR appended, the state StartOfField; and when the chunk
\* ends there the call returns Ok with leftover_data empty in StartOfField.
C7_CrLfOneBoundary ==
   /\ [][AtCrLf =>
        /\ pos' = pos + 2
        /\ pc' = "walk"
        /\ state' = "StartOfField"
        /\ trace' = trace \o
             << [kind |-> "walk", pos |-> pos, ch |-> CR, from |-> state,
                 action |-> "CommitRow"],
                [kind |-> "merge", pos |-> pos + 1, ch |-> LF,
                 from |-> "EndOfRecord", action |-> "NoOp"] >>
        /\ completed_rows' = IF IsBlank(PendingRow) THEN completed_rows
                             ELSE Append(completed_rows, PendingRow)
        /\ row_builder'.fields = <<>>
        /\ field_builder'.buffer = <<>>
        /\ last_consumed_index' = char_index(chunk, pos + 2)]_vars
   /\ [][EndsOnCrLf =>
            /\ pc' = "idle"
            /\ result' = OkResult(completed_rows, <<>>)
            /\ state' = "StartOfField"]_vars

\* the call "a CR LF" returned the row of the CR
C7_Witness ==
    /\ pc = "idle"
    /\ chunk = <<LETTER_a, CR, LF>>
    /\ result = OkResult(<< <<<<LETTER_a>>>> >>, <<>>)
    /\ state = "StartOfField"
    /\ Len(trace) = 4

\* the last two returned calls: the first ended inside a quoted field
TwoCalls == Len(log) >= 2

First == log[Len(log) - 1]

Second == log[Len(log)]

SplitInQuotedField ==
    /\ TwoCalls
    /\ First.ret.chunk # <<>>
    /\ Second.ret.chunk # <<>>
    /\ First.ret.state \in QuotedStates

\* the two calls gave what the one call `whole` on both chunks gives
SameAsWhole(whole) ==
    /\ First.ret.result.kind = "ok"
    /\ whole.result.kind = Second.ret.result.kind
    /\ whole.result.kind = "err" => whole.result = Second.ret.result
    /\ whole.result.kind = "ok" =>
         whole.result.complete_rows =
             RowsOf(First.ret.result) \o RowsOf(Second.ret.result)
    /\ ParserOf(whole) = ParserOf(Second.ret)

\* C5: a non-empty chunk that ends in InQuotedField or CustomEscapeSeen
\* returns Ok and leaves state, field buffer and row fields as the walk left
\* them; and feeding the next chunk gives the same rows, the same error and
\* the same parser as feeding both chunks as one from the same start.
C5_QuotedFieldAcrossChunks ==
    /\ [][(AtEndOfChunk /\ chunk # <<>> /\ state \in QuotedStates) =>
            /\ pc' = "idle"
            /\ result'.kind = "ok"
            /\ state' = state
            /\ field_builder' = field_builder
            /\ row_builder' = row_builder]_vars
    /\ [](SplitInQuotedField =>
            SameAsWhole(process_chunk(First.entry,
                                      First.ret.chunk \o Second.ret.chunk)))

\* a quoted field split over two chunks came out as one field
C5_Witness ==
    /\ pc = "idle"
    /\ SplitInQuotedField
    /\ First.ret.chunk = <<DQUOTE, LETTER_a>>
    /\ Second.ret.result = OkResult(<< <<<<LETTER_a, LETTER_a>>>> >>, <<>>)

\* ------------------------------------------- the logical records of a text
\* What the text means, read as a whole by the grammar of its records:
\* delimiter-separated fields, unquoted or quoted, each record ended by LF, CR
\* or CR LF.  rd.mode is where the reading stands: "BOR" at the beginning of
\* a record, "BOR_CR" there right after a CR, "SOF" after a delimiter, "UNQ"
\* in an unquoted field, "INQ" in a quoted field, "DQ" there right after a
\* doubled quote, "QS" after a quote that closes or doubles, "ESC" after the
\* escape character of custom mode, "BAD" once the text is malformed.
RefStart == [mode |-> "BOR", field |-> <<>>, row |-> <<>>, rows |-> <<>>]

RefEndField(rd, mode) ==
    [rd EXCEPT !.mode = mode, !.field = <<>>, !.row = Append(@, rd.field)]

RefEndRecord(rd, mode) ==
    [mode |-> mode, field |-> <<>>, row |-> <<>>,
     rows |-> IF IsBlank(Append(rd.row, rd.field)) THEN rd.rows
              ELSE Append(rd.rows, Append(rd.row, rd.field))]

RefAppend(rd, c, mode) == [rd EXCEPT !.mode = mode, !.field = Append(@, c)]

RefBad(rd) == [rd EXCEPT !.mode = "BAD"]

RefChar(rd, c, cfg) ==
    CASE rd.mode \in {"BOR", "BOR_CR", "SOF"} ->
           IF c = LF /\ rd.mode = "BOR_CR" THEN [rd EXCEPT !.mode = "BOR"]
           ELSE IF c = cfg.quote THEN [rd EXCEPT !.mode = "INQ"]
           ELSE IF c = cfg.delimiter THEN RefEndField(rd, "SOF")
           ELSE IF c = CR THEN RefEndRecord(rd, "BOR_CR")
           ELSE IF c = LF THEN RefEndRecord(rd, "BOR")
           ELSE RefAppend(rd, c, "UNQ")
      [] rd.mode = "UNQ" ->
           IF c = cfg.quote THEN RefBad(rd)
           ELSE IF c = cfg.delimiter THEN RefEndField(rd, "SOF")
           ELSE IF c = CR THEN RefEndRecord(rd, "BOR_CR")
           ELSE IF c = LF THEN RefEndRecord(rd, "BOR")
           ELSE RefAppend(rd, c, "UNQ")
      [] rd.mode \in {"INQ", "DQ"} ->
           IF c = cfg.quote THEN [rd EXCEPT !.mode = "QS"]
           ELSE IF c = cfg.escape THEN [rd EXCEPT !.mode = "ESC"]
           ELSE RefAppend(rd, c, "INQ")
      [] rd.mode = "QS" ->
           IF c = cfg.quote /\ cfg.quote = cfg.escape THEN RefAppend(rd, c, "DQ")
           ELSE IF c = cfg.delimiter THEN RefEndField(rd, "SOF")
           ELSE IF c = CR THEN RefEndRecord(rd, "BOR_CR")
           ELSE IF c = LF THEN RefEndRecord(rd, "BOR")
           ELSE RefBad(rd)
      [] rd.mode = "ESC" -> RefAppend(rd, c, "INQ")
      [] rd.mode = "BAD" -> rd

RECURSIVE RefRead(_, _, _)
RefRead(rd, text, cfg) ==
    IF text = <<>> THEN rd ELSE RefRead(RefChar(rd, text[1], cfg), Tail(text), cfg)

\* the reading of a whole text
Ref(text, cfg) == RefRead(RefStart, text, cfg)

\* every record of the text is ended by a terminator
RefTerminated(rd) == rd.mode \in {"BOR", "BOR_CR"}

\* the text ends in a last record that has no terminator
RefOpenRecord(rd) == rd.mode \in {"SOF", "UNQ", "QS"}

\* well-formed: every quoted field closed, nothing after a closing quote
RefWellFormed(rd) == RefTerminated(rd) \/ RefOpenRecord(rd)

\* the last record when it has no terminator
RefLastRecord(rd) == Append(rd.row, rd.field)

\* the non-blank records of a well-formed text, in order
RefRows(rd) == IF RefOpenRecord(rd) THEN RefEndRecord(rd, "BOR").rows ELSE rd.rows

\* ------------------------------------------------------ the streaming caller
RECURSIVE Flatten(_)
Flatten(cs) == IF cs = <<>> THEN <<>> ELSE cs[1] \o Flatten(Tail(cs))

\* everything the caller passed, as one text
Input == Flatten(stream.chunks)

\* the caller is done: the chunks, then the empty chunk, no error
StreamDone ==
    /\ stream.on
    /\ pc = "idle"
    /\ ~stream.failed
    /\ Len(stream.chunks) >= 2
    /\ EofSent

\* the rows of the whole text passed as one chunk, then the empty chunk
RowsAfterEof(first) ==
    RowsOf(first.result) \o RowsOf(process_chunk(ParserOf(first), <<>>).result)

WholeRows(text, cfg) == RowsAfterEof(process_chunk(CsvChunkParser_new(cfg), text))

\* the positions of the cuts between the non-empty chunks
Cuts == {Len(Flatten(SubSeq(stream.chunks, 1, k))) : k \in 1..(Len(stream.chunks) - 2)}

\* a cut that is not inside an unquoted field and not right after a quote
\* that may be closing or doubled
AllowedCut(k) ==
    Ref(SubSeq(Input, 1, k), config).mode \in {"BOR", "BOR_CR", "SOF", "INQ", "ESC"}

\* C1 (as claimed): a well-formed text cut at allowed places, passed chunk by
\* chunk and then the empty chunk, gives the rows that the whole text passed
\* as one chunk and then the empty chunk gives.
C1_ChunkInvariance ==
    (StreamDone /\ RefWellFormed(Ref(Input, config)) /\ \A k \in Cuts : AllowedCut(k))
        => stream.rows = WholeRows(Input, config)

\* C2 (as claimed): a well-formed text whose records are all terminated,
\* passed as one chunk to a new parser, returns exactly its non-blank records,
\* each with its field values in order.
C2_SingleChunkCorrect ==
    (/\ stream.on
     /\ pc = "idle"
     /\ Len(stream.chunks) = 1
     /\ chunk # <<>>
     /\ RefTerminated(Ref(chunk, config)))
        => result = OkResult(RefRows(Ref(chunk, config)), <<>>)

\* C3 (as claimed): a well-formed text passed one character per call and then
\* the empty chunk gives the rows that the whole text passed as one chunk and
\* then the empty chunk gives.
C3_CharAtATime ==
    (/\ StreamDone
     /\ RefWellFormed(Ref(Input, config))
     /\ \A k \in 1..(Len(stream.chunks) - 1) : Len(stream.chunks[k]) = 1)
        => stream.rows = WholeRows(Input, config)

\* C4 (as claimed): when the last record of a well-formed text has no
\* terminator, then after the chunks and the one empty chunk that record has
\* been returned as a row with all its fields.
C4_EndOfInputFlush ==
    (/\ StreamDone
     /\ RefOpenRecord(Ref(Input, config))
     /\ ~IsBlank(RefLastRecord(Ref(Input, config))))
        => \E k \in 1..Len(stream.rows) :
              stream.rows[k] = RefLastRecord(Ref(Input, config))

\* ------------------------------------------------------------ quoted fields
\* RFC mode: the escape character is the quote character
RfcMode == config.quote = config.escape

\* this step commits no field and no row and changes no collected row
CommitsNothing ==
    /\ row_builder' = row_builder
    /\ completed_rows' = completed_rows

\* C11: in RFC mode (quote = escape), a quote read inside a quoted field
\* appends nothing and leads to QuoteSeen; a second quote read right after it
\* appends exactly one quote character and reopens the field (InQuotedField);
\* the delimiter read right after it commits the field as it stands; CR or LF
\* read right after it commits the row with that field as its last field.
C11_RfcQuoting ==
    [][(AtWalk /\ RfcMode) =>
        /\ (state = "InQuotedField" /\ chunk[pos] = config.quote) =>
              /\ state' = "QuoteSeen"
              /\ field_builder' = field_builder
              /\ CommitsNothing
        /\ (state = "QuoteSeen" /\ chunk[pos] = config.quote) =>
              /\ state' = "InQuotedField"
              /\ field_builder'.buffer = field_builder.buffer \o encode_utf8(config.quote)
              /\ finalize_field(field_builder').str =
                     Append(finalize_field(field_builder).str, config.quote)
              /\ CommitsNothing
        /\ (state = "QuoteSeen" /\ chunk[pos] = config.delimiter) =>
              /\ state' = "StartOfField"
              /\ row_builder'.fields = PendingRow
              /\ field_builder'.buffer = <<>>
              /\ completed_rows' = completed_rows
        /\ (state = "QuoteSeen" /\ chunk[pos] \in Terminators) =>
              /\ CommitsRow
              /\ state' = "StartOfField"
              /\ row_builder'.fields = <<>>
              /\ field_builder'.buffer = <<>>
              /\ completed_rows' = IF IsBlank(PendingRow) THEN completed_rows
                                   ELSE Append(completed_rows, PendingRow)]_vars

\* the chunk of three quotes: the field holds one quote and is still open
C11_Witness ==
    /\ RfcMode
    /\ chunk = <<DQUOTE, DQUOTE, DQUOTE>>
    /\ Len(trace) = 3
    /\ trace[3].action = "AppendEscapedQuote"
    /\ state = "InQuotedField"
    /\ field_builder.buffer = <<DQUOTE>>

\* this step is the entry of a call
Enters == pc = "idle" /\ pc' = "walk"

\* C12: in custom-escape mode (escape # quote), the escape character read
\* inside a quoted field appends nothing and leads to CustomEscapeSeen; the
\* character read next, whatever it is, is appended to the field as data and
\* the state returns to InQuotedField, with no field and no row committed; a
\* non-empty chunk that ends in CustomEscapeSeen returns Ok and keeps that
\* state and the field, as does the entry of the next call, so that the first
\* character of the next chunk is the one appended.
C12_CustomEscape ==
    /\ [][(AtWalk /\ ~RfcMode) =>
            /\ (state = "InQuotedField" /\ chunk[pos] = config.escape) =>
                  /\ state' = "CustomEscapeSeen"
                  /\ field_builder' = field_builder
                  /\ CommitsNothing
            /\ state = "CustomEscapeSeen" =>
                  /\ pc' = "walk"
                  /\ state' = "InQuotedField"
                  /\ field_builder'.buffer = field_builder.buffer \o encode_utf8(chunk[pos])
                  /\ finalize_field(field_builder').str =
                         Append(finalize_field(field_builder).str, chunk[pos])
                  /\ CommitsNothing]_vars
    /\ [][(AtEndOfChunk /\ chunk # <<>> /\ state = "CustomEscapeSeen") =>
            /\ result'.kind = "ok"
            /\ state' = "CustomEscapeSeen"
            /\ field_builder' = field_builder
            /\ row_builder' = row_builder]_vars
    /\ [][Enters =>
            /\ state' = state
            /\ field_builder' = field_builder
            /\ row_builder' = row_builder
            /\ pos' = 1]_vars

\* the escape character ended a chunk and the quote that began the next one
\* was appended as data
C12_Witness ==
    /\ ~RfcMode
    /\ entry.state = "CustomEscapeSeen"
    /\ pc = "walk"
    /\ pos = 2
    /\ chunk[1] = config.quote
    /\ state = "InQuotedField"
    /\ field_builder.buffer = encode_utf8(config.quote)

\* the characters of c strictly between its first and its last
Inner(c) == SubSeq(c, 2, Len(c) - 1)

\* c is one quoted field whose content is made of delimiters, CR, LF and
\* letters
QuotedOnce(c) ==
    /\ Len(c) >= 3
    /\ c[1] = config.quote
    /\ c[Len(c)] = config.quote
    /\ \A k \in 2..(Len(c) - 1) : c[k] \in {config.delimiter, CR, LF, LETTER_a}

\* C13: a delimiter, CR or LF read by the main walk in InQuotedField is
\* appended to the field as data: the state stays InQuotedField and no field
\* and no row is committed; a chunk that is one quoted field with such
\* content, passed to a parser between records, returns one row of one field
\* holding that content.
C13_QuotedDelimiters ==
    /\ [][(/\ AtWalk
           /\ state = "InQuotedField"
           /\ chunk[pos] \in {config.delimiter, CR, LF}
           /\ chunk[pos] \notin {config.quote, config.escape}) =>
            /\ pc' = "walk"
            /\ state' = "InQuotedField"
            /\ field_builder'.buffer = field_builder.buffer \o encode_utf8(chunk[pos])
            /\ finalize_field(field_builder').str =
                   Append(finalize_field(field_builder).str, chunk[pos])
            /\ CommitsNothing]_vars
    /\ [][(/\ Returns
           /\ entry.state = "StartOfField"
           /\ BetweenRecords(entry)
           /\ QuotedOnce(chunk)) =>
            result' = OkResult(<< <<Inner(chunk)>> >>, <<>>)]_vars

\* the chunk "," in quotes returned the one field ","
C13_Witness ==
    /\ pc = "idle"
    /\ chunk = <<config.quote, config.delimiter, config.quote>>
    /\ result = OkResult(<< << <<config.delimiter>> >> >>, <<>>)

\* ---------------------------------------------------------------- leftover
\* the positions of the chunk at which the call so far ended a field or a
\* record (a commit of the main walk, or the character taken by the merge)
Boundaries ==
    {trace[k].pos : k \in {j \in 1..Len(trace) :
        \/ trace[j].kind = "merge"
        \/ trace[j].kind = "walk" /\ trace[j].action \in {"CommitField", "CommitRow"}}}

Max(S) == CHOOSE x \in S : \A y \in S : y <= x

\* the suffix of the chunk after its last field or record boundary: the part
\* that belongs to the field whose terminator has not arrived
UnterminatedSuffix ==
    IF Boundaries = {} THEN chunk
    ELSE SubSeq(chunk, Max(Boundaries) + 1, Len(chunk))

\* a call has returned Ok
ReturnedOk == pc = "idle" /\ result.kind = "ok"

C15_UnclosedQuoteUnrecoverable ==
    (TwoCalls /\ pc = "idle" /\ First.ret.result = ErrResult(UnclosedQuote)) =>
        RowsOf(Second.ret.result) = <<>>

\* ------------------------------------------- one chunk of records per parser
\* The benchmark's use: a new parser for each chunk, the chunk made of whole
\* records, each with its terminator, followed by the beginning of one more
\* record.
\* the sequences of 1..n elements of S, concatenated
RECURSIVE Repeated(_, _)
Repeated(S, n) ==
    IF n = 0 THEN {<<>>}
    ELSE {<<>>} \cup {r \o rest : r \in S, rest \in Repeated(S, n - 1)}

\* whole records with their terminator
Records(cfg) ==
    {<<LETTER_a, LF>>, <<LETTER_a, CR, LF>>, <<LETTER_a, cfg.delimiter, LETTER_a, CR>>}

\* the beginning of a record: the text reaches no terminator and is no
\* malformed text
Partials(cfg) ==
    {p \in Strings(Alphabet(cfg), MaxPartialLen) :
        /\ p # <<>>
        /\ \A k \in 1..Len(p) :
              Ref(SubSeq(p, 1, k), cfg).mode \notin {"BOR", "BOR_CR", "BAD"}}

RecordChunks(cfg) ==
    {rs \o p : rs \in Repeated(Records(cfg), MaxRecords) \ {<<>>}, p \in Partials(cfg)}

RecordsNext ==
    \/ fed = 0 /\ \E c \in RecordChunks(config) : Call(c)
    \/ Walk
    \/ EndOfChunk

RecordsSpec == Init /\ [][RecordsNext]_vars

\* ------------------------------------------------ records, then a partial one
\* C16 (as claimed): one non-empty chunk of N terminated non-blank records
\* followed by a partial record, passed to a new parser, returns exactly N
\* rows.
C16_PartialRecordNotReturned ==
    (/\ pc = "idle"
     /\ entry = CsvChunkParser_new(config)
     /\ chunk \in RecordChunks(config)) =>
        /\ result.kind = "ok"
        /\ Len(result.complete_rows) = Len(Ref(chunk, config).rows)

\* --------------------------------------------------------- multi-byte text
\* the byte offsets of the chunk that lie on a character boundary
CharBoundaries == {char_index(chunk, k) : k \in 1..(Len(chunk) + 1)}

\* this step of the main walk appends the character it reads
AppendsChar ==
    /\ AtWalk
    /\ Len(trace') > Len(trace)
    /\ trace'[Len(trace) + 1].action = "AppendChar"

\* C17: a character appended to a field, in an unquoted or in a quoted
\* field, extends the field by exactly that character, in as many bytes as
\* its UTF-8 width (1 to 4); a doubled quote extends it by the quote
\* character; while the walk runs the last-consumed offset is the byte offset
\* of the next character to read, each step advances it by the byte width of
\* the characters it consumed, and it always is a character boundary of the
\* chunk, at most the chunk's byte length.
C17_MultiByteIntegrity ==
    /\ [][AppendsChar =>
            /\ finalize_field(field_builder').ok
            /\ finalize_field(field_builder').str =
                   Append(finalize_field(field_builder).str, chunk[pos])
            /\ Len(field_builder'.buffer) =
                   Len(field_builder.buffer) + len_utf8(chunk[pos])]_vars
    /\ [][(AtWalk /\ state = "QuoteSeen" /\ chunk[pos] = config.escape) =>
            finalize_field(field_builder').str =
                Append(finalize_field(field_builder).str, config.quote)]_vars
    /\ [][(AtWalk /\ pc' = "walk") =>
            /\ pos' > pos
            /\ last_consumed_index' =
                   last_consumed_index + str_len(SubSeq(chunk, pos, pos' - 1))]_vars
    /\ [](pc = "walk" => last_consumed_index = char_index(chunk, pos))
    /\ [](last_consumed_index \in CharBoundaries /\ last_consumed_index <= str_len(chunk))
    /\ [](finalize_field(field_builder).ok)

\* a four-byte character was appended inside a quoted field
C17_Witness ==
    /\ pc = "walk"
    /\ chunk = <<config.quote, G_CLEF>>
    /\ pos = 3
    /\ state = "InQuotedField"
    /\ field_builder.buffer = <<240, 157, 132, 158>>
    /\ last_consumed_index = len_utf8(config.quote) + 4

\* -------------------------------------------------------- terminator merge
\* the positions of the chunk that the main walk handed to the transition
\* function
WalkedPositions == {trace[k].pos : k \in {j \in 1..Len(trace) : trace[j].kind = "walk"}}

\* C18 (as claimed): the merge consumes the peeked character only if it is
\* CR or LF, and every character of the chunk read so far that is not CR or
\* LF has been handed to the transition function by the main walk.
C18_MergeOnlyTerminators ==
    /\ \A k \in 1..Len(trace) :
          trace[k].kind = "merge" => trace[k].ch \in Terminators
    /\ pc = "walk" =>
          \A j \in 1..(pos - 1) :
              chunk[j] \notin Terminators => j \in WalkedPositions

\* ----------------------------------------------------- end-of-chunk resolution
\* the record of the resolution in the trace of the returning call
FinalEvent == trace'[Len(trace')]

\* the resolution applied the action `tag` from the state the walk ended in
Resolved(tag) ==
    /\ Len(trace') = Len(trace) + 1
    /\ FinalEvent.kind = "final"
    /\ FinalEvent.from = state
    /\ FinalEvent.action = tag

\* C19: at the end of the walk of a non-empty chunk, in InUnquotedField the
\* end-of-input transition is applied: the pending field is committed and the
\* state becomes Finished; in QuoteSeen it is applied: the pending row is
\* committed, appended to the returned rows unless blank, and the state
\* becomes Finished; in StartOfField, InQuotedField and CustomEscapeSeen no
\* transition is applied, nothing is committed and the state is unchanged.
C19_EndOfChunkResolution ==
    [][(AtEndOfChunk /\ chunk # <<>>) =>
        /\ state = "InUnquotedField" =>
              /\ Resolved("CommitField")
              /\ state' = "Finished"
              /\ result' = OkResult(completed_rows, <<>>)
        /\ state = "QuoteSeen" =>
              /\ Resolved("CommitRow")
              /\ state' = "Finished"
              /\ result' = OkResult(IF IsBlank(PendingRow) THEN completed_rows
                                    ELSE Append(completed_rows, PendingRow), <<>>)
        /\ state \in {"StartOfField", "InQuotedField", "CustomEscapeSeen"} =>
              /\ Resolved("NoOp")
              /\ state' = state
              /\ result'.kind = "ok"
              /\ result'.complete_rows = completed_rows
              /\ completed_rows' = completed_rows
        /\ state \in QuotedStates =>
              /\ field_builder' = field_builder
              /\ row_builder' = row_builder]_vars

\* the chunk "a" in quotes ended in QuoteSeen: its row was returned and the
\* parser is Finished
C19_Witness ==
    /\ pc = "idle"
    /\ chunk = <<config.quote, LETTER_a, config.quote>>
    /\ trace[Len(trace)] =
           Event("final", 4, 0, "QuoteSeen", CommitRow)
    /\ state = "Finished"
    /\ result = OkResult(<< << <<LETTER_a>> >> >>, <<>>)

\* ------------------------------------------------- accumulators after a call
\* C20: after a successful call whose resolved state is not InQuotedField or
\* CustomEscapeSeen the field accumulator and the row accumulator are empty
\* and leftover_data is empty; a successful return in InQuotedField or
\* CustomEscapeSeen leaves both accumulators as the walk left them.
C20_AccumulatorsAfterCall ==
    /\ []((ReturnedOk /\ state \notin QuotedStates) =>
            /\ field_builder.buffer = <<>>
            /\ row_builder.fields = <<>>
            /\ result.leftover_data = <<>>)
    /\ [][(Returns /\ result'.kind = "ok" /\ state' \in QuotedStates) =>
            /\ field_builder'.buffer = field_builder.buffer
            /\ row_builder'.fields = row_builder.fields]_vars

\* the chunk "a," ended after the delimiter: the committed field was cleared
C20_Witness ==
    /\ ReturnedOk
    /\ chunk = <<LETTER_a, config.delimiter>>
    /\ trace[2].action = "CommitField"
    /\ state = "StartOfField"
    /\ row_builder.fields = <<>>
    /\ field_builder.buffer = <<>>

\* ------------------------------------------- a field cut by a chunk boundary
\* the fields of the rows the caller collected
OutputFields ==
    {stream.rows[i][j] : i \in 1..Len(stream.rows),
                         j \in 1..Max({Len(stream.rows[k]) : k \in 1..Len(stream.rows)} \cup {0})}

\* a piece of unquoted data: letters only
IsLetters(c) == c # <<>> /\ \A k \in 1..Len(c) : c[k] = LETTER_a

\* the caller passed a chunk that ends inside an unquoted field, then the
\* rest of that field with its terminator, then the empty chunk
CutUnquotedField ==
    /\ StreamDone
    /\ Len(stream.chunks) = 3
    /\ Ref(stream.chunks[1], config).mode = "UNQ"
    /\ Len(stream.chunks[2]) >= 2
    /\ IsLetters(SubSeq(stream.chunks[2], 1, Len(stream.chunks[2]) - 1))
    /\ stream.chunks[2][Len(stream.chunks[2])] \in Terminators

\* C21 (as claimed): when a non-empty chunk ends inside an unquoted field and
\* the rest of the field comes in the next chunk, the part seen before the
\* boundary and the part seen after it are both fields of the output.
C21_FieldSplitAtBoundary ==
    CutUnquotedField =>
        /\ Ref(stream.chunks[1], config).field \in OutputFields
        /\ SubSeq(stream.chunks[2], 1, Len(stream.chunks[2]) - 1) \in OutputFields

\* ------------------------------------------------------ the transition table
\* the class of an input, for a configuration whose delimiter, quote and
\* escape are not CR or LF and whose delimiter is neither quote nor escape
InputClass(c, cfg) ==
    IF c = None THEN "end"
    ELSE IF c[1] = cfg.delimiter THEN "delimiter"
    ELSE IF c[1] = cfg.quote THEN "quote"
    ELSE IF c[1] = cfg.escape THEN "escape"
    ELSE IF c[1] \in Terminators THEN "terminator"
    ELSE "other"

\* the table of the per-state behaviour, row by row
TableRow(s, class, c, cfg) ==
    CASE s = "StartOfField" ->
           CASE class = "delimiter" -> Ok("StartOfField", CommitField)
             [] class = "quote" -> Ok("InQuotedField", NoOp)
             [] class = "terminator" -> Ok("EndOfRecord", CommitRow)
             [] class = "end" -> Ok("Finished", NoOp)
             [] OTHER -> Ok("InUnquotedField", AppendChar(c[1]))
      [] s = "InUnquotedField" ->
           CASE class = "delimiter" -> Ok("StartOfField", CommitField)
             [] class = "terminator" -> Ok("EndOfRecord", CommitRow)
             [] class = "end" -> Ok("Finished", CommitField)
             [] OTHER -> Ok("InUnquotedField", AppendChar(c[1]))
      [] s = "InQuotedField" ->
           CASE class = "quote" -> Ok("QuoteSeen", NoOp)
             [] class = "escape" -> Ok("CustomEscapeSeen", NoOp)
             [] class = "end" -> Err(UnclosedQuote)
             [] OTHER -> Ok("InQuotedField", AppendChar(c[1]))
      [] s = "QuoteSeen" ->
           CASE class = "delimiter" -> Ok("StartOfField", CommitField)
             [] class = "escape" -> Ok("InQuotedField", AppendEscapedQuote)
             [] class = "quote" /\ cfg.quote = cfg.escape ->
                  Ok("InQuotedField", AppendEscapedQuote)
             [] class = "terminator" -> Ok("EndOfRecord", CommitRow)
             [] class = "end" -> Ok("Finished", CommitRow)
             [] OTHER -> Err(DataAfterClosingQuote(c[1]))
      [] s = "CustomEscapeSeen" ->
           CASE class = "end" -> Err(UnclosedQuote)
             [] OTHER -> Ok("InQuotedField", AppendChar(c[1]))
      [] s = "EndOfRecord" ->
           CASE class = "terminator" -> Ok("EndOfRecord", NoOp)
             [] class = "end" -> Ok("Finished", NoOp)
             [] OTHER -> Ok("StartOfField", NoOp)
      [] s = "Finished" -> Ok("Finished", NoOp)

\* C22: for every state, every class of input (delimiter, quote, escape, CR,
\* LF, another character, end of input) and both modes, with the delimiter
\* ',' or ';', the transition function returns the next state and action, or
\* the error, of the table of its per-state behaviour; the call changes no
\* field of the parser.
C22_TransitionTable ==
    /\ [](trace # <<>> =>
            trace[1].out = TableRow(trace[1].from, InputClass(trace[1].input, config),
                                    trace[1].input, config))
    /\ [][/\ state' = state
          /\ field_builder' = field_builder
          /\ row_builder' = row_builder
          /\ config' = config]_vars

\* the closing quote followed by the delimiter ';'
C22_Witness ==
    /\ config.delimiter = SEMICOLON
    /\ config.escape = BACKSLASH
    /\ trace = <<[kind |-> "call", from |-> "QuoteSeen", input |-> Some(SEMICOLON),
                  out |-> Ok("StartOfField", CommitField)]>>

\* ------------------------------------------------------ errors abandon a call
\* the main walk is about to read, in QuoteSeen, a character that may not
\* follow a closing quote
AtOffendingChar ==
    /\ AtWalk
    /\ state = "QuoteSeen"
    /\ chunk[pos] \notin {config.escape, config.delimiter, CR, LF}

\* the number of rows committed by the transitions of a call
RowCommits(tr) == Cardinality({k \in 1..Len(tr) : tr[k].action = "CommitRow"})

\* C23: when a character makes the call fail with DataAfterClosingQuote the
\* walk stops at that character: the call returns the error and no rows, the
\* cursor does not move, no transition of a later character is made and the
\* parser's fields are left as they were; the rows completed earlier in the
\* chunk are held by the call only: the next call begins with no completed
\* rows and returns only rows committed by its own transitions.
C23_ErrorsAbandonCall ==
    /\ [][AtOffendingChar =>
            /\ pc' = "idle"
            /\ result' = ErrResult(DataAfterClosingQuote(chunk[pos]))
            /\ RowsOf(result') = <<>>
            /\ pos' = pos
            /\ trace' = trace
            /\ ParserOf(Cur') = ParserOf(Cur)]_vars
    /\ [][(pc = "idle" /\ IsDataAfterClosingQuote(result)) =>
            (pos' = pos /\ chunk' = chunk /\ trace' = trace) \/ Enters]_vars
    /\ [][Enters => (completed_rows' = <<>> /\ trace' = <<>>)]_vars
    /\ []((TwoCalls /\ pc = "idle" /\ IsDataAfterClosingQuote(First.ret.result)) =>
            Len(RowsOf(Second.ret.result)) <= RowCommits(Second.ret.trace))

\* a row was completed, then the chunk failed before its last character, and
\* the call that followed returned no row
C23_Witness ==
    /\ TwoCalls
    /\ pc = "idle"
    /\ IsDataAfterClosingQuote(First.ret.result)
    /\ First.ret.completed_rows = << << <<LETTER_a>> >> >>
    /\ First.ret.pos < Len(First.ret.chunk)
    /\ Second.ret.chunk = <<>>
    /\ Second.ret.result = OkResult(<<>>, <<>>)

RestingStates == {"StartOfField", "InQuotedField", "CustomEscapeSeen", "Finished"}

\* C25: after every call that returns Ok the state is StartOfField,
\* InQuotedField, CustomEscapeSeen or Finished; between calls the state is
\* never InUnquotedField or EndOfRecord, and is QuoteSeen only after a call
\* that failed with DataAfterClosingQuote; the main walk never reads a
\* character in EndOfRecord, which the merge has replaced by StartOfField.
C25_RestingStates ==
    /\ [](ReturnedOk => state \in RestingStates)
    /\ []((pc = "idle" /\ state \notin RestingStates) =>
            (state = "QuoteSeen" /\ IsDataAfterClosingQuote(result)))
    /\ [](state # "EndOfRecord")
    /\ [][(AtWalk /\ Len(trace') > Len(trace)
             /\ trace'[Len(trace) + 1].action = "CommitRow") =>
            (pc' = "walk" /\ state' = "StartOfField")]_vars

\* a chunk that ended inside an unquoted field left the parser in Finished
C25_Witness ==
    /\ ReturnedOk
    /\ chunk = <<LETTER_a, LETTER_a>>
    /\ trace[Len(trace)] = Event("final", 3, 0, "InUnquotedField", CommitField)
    /\ state = "Finished"

\* ------------------------------------------ a chunk that ends after a delimiter
\* the walk of a non-empty chunk ended in StartOfField with fields committed
\* to the current row
EndsAfterDelimiter ==
    /\ AtEndOfChunk
    /\ chunk # <<>>
    /\ state = "StartOfField"
    /\ row_builder.fields # <<>>

\* C26: when a non-empty chunk ends in StartOfField with fields already
\* committed to the current row, the call returns the rows of the walk and
\* leaves a parser with no field in its row and an empty field buffer, that
\* is, a parser as new; the next call begins with a row of zero fields, so
\* the discarded fields are in no row of this or of a later call.
C26_FieldsDiscardedAfterDelimiter ==
    /\ [][EndsAfterDelimiter =>
            /\ result' = OkResult(completed_rows, <<>>)
            /\ ParserOf(Cur') = CsvChunkParser_new(config)]_vars
    /\ [][Enters => row_builder' = row_builder]_vars
    /\ []((/\ TwoCalls
           /\ pc = "idle"
           /\ First.ret.chunk # <<>>
           /\ First.ret.result.kind = "ok"
           /\ First.ret.state = "StartOfField") =>
            /\ Second.entry = CsvChunkParser_new(config)
            /\ Second.ret.result = process_chunk(CsvChunkParser_new(config),
                                                 Second.ret.chunk).result)

\* "a," then "a" LF: the one row returned holds the second field only
C26_Witness ==
    /\ TwoCalls
    /\ pc = "idle"
    /\ First.ret.chunk = <<LETTER_a, config.delimiter>>
    /\ First.ret.trace[2].action = "CommitField"
    /\ First.ret.result = OkResult(<<>>, <<>>)
    /\ Second.ret.chunk = <<LETTER_a, LF>>
    /\ Second.ret.result = OkResult(<< << <<LETTER_a>> >> >>, <<>>)

\* ----------------------------------------------- the failed end-of-input call
\* C27: a call with the empty chunk made in InQuotedField or CustomEscapeSeen
\* returns UnclosedQuote and leaves the state, the field buffer and the
\* fields of the current row exactly as they were on entry.
C27_UnclosedQuoteChangesNothing ==
    /\ [][(AtEndOfChunk /\ chunk = <<>> /\ state \in QuotedStates) =>
            /\ pc' = "idle"
            /\ result' = ErrResult(UnclosedQuote)
            /\ state' = state
            /\ field_builder' = field_builder
            /\ row_builder' = row_builder]_vars
    /\ []((pc = "idle" /\ result = ErrResult(UnclosedQuote)) =>
            /\ chunk = <<>>
            /\ state \in QuotedStates
            /\ ParserOf(Cur) = entry)

\* the end of input came with one field committed and "a" pending in an open
\* quoted field: both are still there after the error
C27_Witness ==
    /\ pc = "idle"
    /\ result = ErrResult(UnclosedQuote)
    /\ state = "InQuotedField"
    /\ row_builder.fields = << <<>> >>
    /\ field_builder.buffer = <<LETTER_a>>

\* ------------------------------------------------ CustomEscapeSeen and the mode
\* C28: with a configuration whose quote is its escape character the state
\* is never CustomEscapeSeen, in a call or between calls, and no call of the
\* transition function made by the parser returns it.
C28_NoCustomEscapeInRfcMode ==
    /\ [](RfcMode => state # "CustomEscapeSeen")
    /\ [](RfcMode => \A k \in 1..Len(trace) : trace[k].from # "CustomEscapeSeen")
    /\ [][(RfcMode /\ AtWalk /\ state = "InQuotedField" /\ chunk[pos] = config.escape)
             => state' = "QuoteSeen"]_vars

\* in RFC mode the escape character read inside a quoted field led to
\* QuoteSeen
C28_Witness ==
    /\ RfcMode
    /\ pc = "walk"
    /\ state = "QuoteSeen"
    /\ trace # <<>>
    /\ trace[Len(trace)].from = "InQuotedField"
    /\ trace[Len(trace)].ch = config.escape

====
